---- MODULE Spec2Model ----
(***************************************************************************)
(* Verification model of golker16/copy_envelope: the envelope pipeline of  *)
(* src/engine.py: apply_envelopes and the pure functions it calls.         *)
(*                                                                         *)
(* Numbers.  The engine computes on IEEE doubles.  The model computes in   *)
(* exact arithmetic: a sample is a signed rational whose numerator and     *)
(* denominator are arbitrary-precision naturals (TLC's own integers are    *)
(* 32 bits wide and cannot hold 1 and 1e-12 in one fixed-point unit), and  *)
(* the result of geom_mean, an M-th root, is kept as a coefficient times a *)
(* radical.  Floating-point rounding is therefore abstracted; every        *)
(* threshold and epsilon of the source keeps its exact decimal value.      *)
(***************************************************************************)
EXTENDS Integers, Sequences, FiniteSets, TLC

(***************************************************************************)
(* Arbitrary-precision naturals: little-endian sequences of limbs in       *)
(* 0..Base-1 without leading (most significant) zero limbs; <<>> is 0.     *)
(***************************************************************************)
Base == 10^4

RECURSIVE BNat(_)
BNat(n) == IF n = 0 THEN <<>> ELSE <<n % Base>> \o BNat(n \div Base)

RECURSIVE BTrim(_)
BTrim(a) ==
  IF a = <<>> THEN a
  ELSE IF a[Len(a)] = 0 THEN BTrim(SubSeq(a, 1, Len(a) - 1)) ELSE a

RECURSIVE BAddC(_, _, _)
BAddC(a, b, c) ==
  IF a = <<>> /\ b = <<>> THEN (IF c = 0 THEN <<>> ELSE <<c>>)
  ELSE LET x == IF a = <<>> THEN 0 ELSE Head(a)
           y == IF b = <<>> THEN 0 ELSE Head(b)
           s == x + y + c
       IN  <<s % Base>> \o BAddC(IF a = <<>> THEN a ELSE Tail(a),
                                 IF b = <<>> THEN b ELSE Tail(b),
                                 s \div Base)

BAdd(a, b) == BAddC(a, b, 0)

RECURSIVE BCmpTop(_, _, _)
BCmpTop(a, b, i) ==
  IF i = 0 THEN 0
  ELSE IF a[i] < b[i] THEN -1
  ELSE IF a[i] > b[i] THEN 1
  ELSE BCmpTop(a, b, i - 1)

\* -1, 0 or 1 as a < b, a = b, a > b
BCmp(a, b) ==
  IF Len(a) < Len(b) THEN -1
  ELSE IF Len(a) > Len(b) THEN 1
  ELSE BCmpTop(a, b, Len(a))

RECURSIVE BSubB(_, _, _)
BSubB(a, b, borrow) ==
  IF a = <<>> THEN <<>>
  ELSE LET y == IF b = <<>> THEN 0 ELSE Head(b)
           d == Head(a) - y - borrow
       IN  <<(d + Base) % Base>> \o BSubB(Tail(a),
                                          IF b = <<>> THEN b ELSE Tail(b),
                                          IF d < 0 THEN 1 ELSE 0)

\* a - b for a >= b
BSub(a, b) == BTrim(BSubB(a, b, 0))

RECURSIVE BMulSmallC(_, _, _)
BMulSmallC(a, k, c) ==
  IF a = <<>> THEN (IF c = 0 THEN <<>> ELSE <<c>>)
  ELSE LET p == Head(a) * k + c
       IN  <<p % Base>> \o BMulSmallC(Tail(a), k, p \div Base)

\* a * k for a limb-sized k
BMulSmall(a, k) == IF k = 0 THEN <<>> ELSE BMulSmallC(a, k, 0)

BShift(a) == IF a = <<>> THEN a ELSE <<0>> \o a

RECURSIVE BMul(_, _)
BMul(a, b) ==
  IF a = <<>> \/ b = <<>> THEN <<>>
  ELSE BAdd(BMulSmall(a, Head(b)), BShift(BMul(a, Tail(b))))

RECURSIVE BPow10(_)
BPow10(k) == IF k = 0 THEN <<1>> ELSE BMulSmall(BPow10(k - 1), 10)

(***************************************************************************)
(* Denominators are kept factored, as bags of natural factors (a function  *)
(* factor -> multiplicity), so that a sum is formed over the least common  *)
(* multiple of the factor bags and repeated divisions by the same number   *)
(* do not square the denominator.                                          *)
(***************************************************************************)
EmptyDen == [a \in {} |-> 0]

DenAtom(b) == IF b = <<1>> THEN EmptyDen ELSE [a \in {b} |-> 1]

Cnt(d, a) == IF a \in DOMAIN d THEN d[a] ELSE 0

DenJoin(d1, d2) == [a \in DOMAIN d1 \cup DOMAIN d2 |-> Cnt(d1, a) + Cnt(d2, a)]

DenLcm(d1, d2) ==
  [a \in DOMAIN d1 \cup DOMAIN d2 |->
     IF Cnt(d1, a) >= Cnt(d2, a) THEN Cnt(d1, a) ELSE Cnt(d2, a)]

RECURSIVE BPow(_, _)
BPow(a, k) == IF k = 0 THEN <<1>> ELSE BMul(a, BPow(a, k - 1))

RECURSIVE DenValOver(_, _)
DenValOver(d, S) ==
  IF S = {} THEN <<1>>
  ELSE LET a == CHOOSE x \in S : TRUE
       IN  BMul(BPow(a, d[a]), DenValOver(d, S \ {a}))

\* the natural number a factor bag stands for
DenVal(d) == DenValOver(d, DOMAIN d)

\* L / d for a bag d that divides L
Cofactor(L, d) == DenVal([a \in DOMAIN L |-> L[a] - Cnt(d, a)])

(***************************************************************************)
(* Signed rationals [s, n, d]: value s * n / DenVal(d) with s in {1, -1}.  *)
(* Zero is written with s = 1.  Fractions are not reduced, so values are   *)
(* compared with REq / RLeq, never with =.                                 *)
(***************************************************************************)
RMk(s, n, d) == [s |-> IF n = <<>> THEN 1 ELSE s, n |-> n, d |-> d]

Abs(i) == IF i < 0 THEN -i ELSE i

Sgn(i) == IF i < 0 THEN -1 ELSE 1

RInt(i) == RMk(Sgn(i), BNat(Abs(i)), EmptyDen)

\* p / q for integers p and q > 0
RFrac(p, q) == RMk(Sgn(p), BNat(Abs(p)), DenAtom(BNat(q)))

\* m * 10^-k, the decimal literal "m e-k"
RDec(m, k) == RMk(1, BNat(m), IF k = 0 THEN EmptyDen ELSE [a \in {<<10>>} |-> k])

RZero == RInt(0)
ROne == RInt(1)

IsZero(a) == a.n = <<>>

RNeg(a) == RMk(-a.s, a.n, a.d)

RAbs(a) == RMk(1, a.n, a.d)

RMul(a, b) == RMk(a.s * b.s, BMul(a.n, b.n), DenJoin(a.d, b.d))

\* a / b for b # 0
RDiv(a, b) == RMk(a.s * b.s, BMul(a.n, DenVal(b.d)), DenJoin(a.d, DenAtom(b.n)))

\* signed sum of two magnitudes over a common denominator
SAdd(sa, na, sb, nb, d) ==
  IF sa = sb THEN RMk(sa, BAdd(na, nb), d)
  ELSE IF BCmp(na, nb) >= 0 THEN RMk(sa, BSub(na, nb), d)
  ELSE RMk(sb, BSub(nb, na), d)

RAdd(a, b) ==
  IF a.d = b.d THEN SAdd(a.s, a.n, b.s, b.n, a.d)
  ELSE LET L == DenLcm(a.d, b.d)
       IN  SAdd(a.s, BMul(a.n, Cofactor(L, a.d)),
                b.s, BMul(b.n, Cofactor(L, b.d)), L)

RSub(a, b) == RAdd(a, RNeg(b))

REq(a, b) == IsZero(RSub(a, b))

RLeq(a, b) == RSub(b, a).s = 1

RLt(a, b) == ~RLeq(b, a)

RMax(a, b) == IF RLeq(a, b) THEN b ELSE a

RMin(a, b) == IF RLeq(a, b) THEN a ELSE b

RECURSIVE RPow(_, _)
RPow(a, k) == IF k = 0 THEN ROne ELSE RMul(a, RPow(a, k - 1))

(***************************************************************************)
(* Values c * rad^(1/deg), rad > 0: what the combiner returns.  A plain    *)
(* rational r is VLift(r); geom_mean of M >= 2 envelopes is a true M-th    *)
(* root.  Comparison raises both sides to the common power deg_a * deg_b.  *)
(***************************************************************************)
VLift(r) == [c |-> r, rad |-> ROne, deg |-> 1]

VRoot(r, k) == IF k = 1 THEN VLift(r) ELSE [c |-> ROne, rad |-> r, deg |-> k]

\* |v| ^ (v.deg * k)
VAbsPow(v, k) == RPow(RMul(RPow(RAbs(v.c), v.deg), v.rad), k)

VLeq(a, b) ==
  LET aneg == a.c.s = -1
      bneg == b.c.s = -1
  IN  IF aneg /\ ~bneg THEN TRUE
      ELSE IF ~aneg /\ bneg THEN FALSE
      ELSE IF aneg THEN RLeq(VAbsPow(b, a.deg), VAbsPow(a, b.deg))
      ELSE RLeq(VAbsPow(a, b.deg), VAbsPow(b, a.deg))

VEq(a, b) == VLeq(a, b) /\ VLeq(b, a)

VScale(v, r) == [c |-> RMul(v.c, r), rad |-> v.rad, deg |-> v.deg]

\* Sum of two values with the same radical part (the only sums the pipeline
\* forms: the channels of one time index share the envelope value E[t]).
VAdd(a, b) ==
  CASE IsZero(a.c) -> b
    [] IsZero(b.c) -> a
    [] a.deg = b.deg /\ REq(a.rad, b.rad) ->
         [c |-> RAdd(a.c, b.c), rad |-> a.rad, deg |-> a.deg]

\* product of two values of which one at least is a plain rational
VMul(a, b) == IF a.deg = 1 THEN VScale(b, a.c) ELSE VScale(a, b.c)

VSeqEq(x, y) == Len(x) = Len(y) /\ \A t \in 1..Len(x) : VEq(x[t], y[t])

RSeqEq(x, y) == Len(x) = Len(y) /\ \A t \in 1..Len(x) : REq(x[t], y[t])

LiftSeq(x) == [t \in 1..Len(x) |-> VLift(x[t])]

(***************************************************************************)
(* engine.py: the pure functions                                           *)
(***************************************************************************)
None == "None"

\* db_to_lin: 10 ** (db / 20), for db a multiple of 20 (the levels the model
\* draws), where the power of ten is a rational.
db_to_lin(db) ==
  IF db >= 0 THEN RMk(1, BPow10(db \div 20), EmptyDen) ELSE RDec(1, (-db) \div 20)

RECURSIVE VSumOver(_, _, _)
VSumOver(y, t, c) == IF c = 0 THEN VLift(RZero) ELSE VAdd(VSumOver(y, t, c - 1), y[c][t])

\* mutant: the first channel is returned, y[0]
to_mono_FirstChannel(y) == y[1]

\* to_mono on a (C, N) buffer: np.mean(y, axis=0)
to_mono(y) ==
  [t \in 1..Len(y[1]) |-> VScale(VSumOver(y, t, Len(y)), RFrac(1, Len(y)))]

Max2(a, b) == IF a >= b THEN a ELSE b

\* mutant: max(1, round(sr * (ms / 1000.0)))
TimeConstant_Rounded(sr, us) == Max2(1, (2 * sr * us + 1000000) \div 2000000)

\* max(1, int(sr * (ms / 1000.0))) with the time given in microseconds
\* (ms = us / 1000): int() truncates.
TimeConstant(sr, us) == Max2(1, (sr * us) \div 1000000)

RECURSIVE OnePole(_, _, _)
\* the recurrence prev += (x[i] - prev) / tau over x in list order
OnePole(x, prev, tau) ==
  IF x = <<>> THEN <<>>
  ELSE LET p == RAdd(prev, RDiv(RSub(Head(x), prev), RInt(tau)))
       IN  <<p>> \o OnePole(Tail(x), p, tau)

Reverse(x) == [k \in 1..Len(x) |-> x[Len(x) + 1 - k]]

\* prev = env[0] on an empty array: IndexError
SmoothRaises(x) == x = <<>>

\* smooth_envelope when it does not raise
smooth_envelope(env, sr, attack_us, release_us) ==
  LET atk == TimeConstant(sr, attack_us)
      rel == TimeConstant(sr, release_us)
      fwd == OnePole(env, env[1], atk)
      rev == Reverse(fwd)
  IN  Reverse(OnePole(rev, rev[1], rel))

RECURSIVE Tile(_, _)
Tile(arr, reps) == IF reps = 0 THEN <<>> ELSE arr \o Tile(arr, reps - 1)

\* mutant: the tiled array is returned without the final [:length]
loop_to_length_NoTruncate(arr, length) ==
  IF Len(arr) >= length THEN SubSeq(arr, 1, length)
  ELSE Tile(arr, (length + Len(arr) - 1) \div Len(arr))

loop_to_length(arr, length) ==
  IF Len(arr) >= length THEN SubSeq(arr, 1, length)
  ELSE LET reps == (length + Len(arr) - 1) \div Len(arr)
       IN  SubSeq(Tile(arr, reps), 1, length)

\* mutant: the first row is returned, E[0], instead of the maximum over rows
RMaxOf_First(x) == x[1]

RECURSIVE RMaxOf(_)
RMaxOf(x) == IF Len(x) = 1 THEN x[1] ELSE RMax(Head(x), RMaxOf(Tail(x)))

RECURSIVE RSumOf(_)
RSumOf(x) == IF x = <<>> THEN RZero ELSE RAdd(Head(x), RSumOf(Tail(x)))

RECURSIVE RProdOf(_)
RProdOf(x) == IF x = <<>> THEN ROne ELSE RMul(Head(x), RProdOf(Tail(x)))

\* mutant: the bound is passed as the upper one, np.clip(x, None, lo)
ClipLo_AsUpper(x, lo) == IF RLt(lo, x) THEN lo ELSE x

\* np.clip(x, lo, None)
ClipLo(x, lo) == IF RLt(x, lo) THEN lo ELSE x

\* peak = max(env) + 1e-12; env / peak
Normalize(env) ==
  LET peak == RAdd(RMaxOf(env), RDec(1, 12))
  IN  [t \in 1..Len(env) |-> RDiv(env[t], peak)]

\* mutant: (mode or "mean").lower()
Lower_DefaultMean(mode) ==
  CASE mode \in {None, ""} -> "mean"
    [] mode = "WEIGHTED" -> "weighted"
    [] OTHER -> mode

\* (mode or "max").lower() over the mode strings the model draws
Lower(mode) ==
  CASE mode \in {None, ""} -> "max"
    [] mode = "WEIGHTED" -> "weighted"
    [] OTHER -> mode

\* column t of E = np.stack(envs): the M values at sample index t
Column(envs, t) == [m \in 1..Len(envs) |-> envs[m][t]]

\* mutant: the limit is twice the maximum
SumLimitFactor_Double == RInt(2)

SumLimitFactor == RDec(15, 1)

CombineSample(col, mode, weights) ==
  LET M == Len(col)
  IN  CASE mode = "max" -> VLift(RMaxOf(col))
        [] mode = "mean" -> VLift(RDiv(RSumOf(col), RInt(M)))
        [] mode = "geom_mean" ->
             VRoot(RProdOf([m \in 1..M |-> ClipLo(col[m], RDec(1, 12))]), M)
        [] mode = "product" ->
             VLift(RProdOf([m \in 1..M |-> ClipLo(col[m], RDec(1, 6))]))
        [] mode = "sum_limited" ->
             VLift(RMin(RSumOf(col), RMul(RMaxOf(col), SumLimitFactor)))
        [] mode = "weighted" ->
             VLift(RDiv(RSumOf([m \in 1..M |-> RMul(col[m], weights.val[m])]),
                        RAdd(RSumOf(weights.val), RDec(1, 12))))
        [] OTHER -> VLift(RMaxOf(col))

\* mutant: only too few weights are rejected
WeightsRejected_TooFew(M, weights) ==
  ~weights.some \/ weights.val = <<>> \/ Len(weights.val) < M

\* the ValueError of combine_envelopes: not weights or len(weights) != M
WeightsRejected(M, weights) ==
  ~weights.some \/ weights.val = <<>> \/ Len(weights.val) # M

\* mutant: the count is compared with E.shape[1], the number of samples
CombineRaises_SampleAxis(envs, mode, weights) ==
  Lower(mode) = "weighted" /\ WeightsRejected(Len(envs[1]), weights)

CombineRaises(envs, mode, weights) ==
  Lower(mode) = "weighted" /\ WeightsRejected(Len(envs), weights)

\* combine_envelopes when it does not raise
combine_envelopes(envs, mode, weights) ==
  [t \in 1..Len(envs[1]) |-> CombineSample(Column(envs, t), Lower(mode), weights)]

\* mutant: a ceiling of 1 is applied too, np.clip(E, floor_lin, 1.0)
FloorClamp_Ceiling(E, floor_lin) ==
  [t \in 1..Len(E) |->
     IF ~VLeq(VLift(floor_lin), E[t]) THEN VLift(floor_lin)
     ELSE IF VLeq(E[t], VLift(ROne)) THEN E[t] ELSE VLift(ROne)]

\* np.clip(E, floor_lin, None)
FloorClamp(E, floor_lin) ==
  [t \in 1..Len(E) |-> IF VLeq(VLift(floor_lin), E[t]) THEN E[t] ELSE VLift(floor_lin)]

(***************************************************************************)
(* The inputs the model draws.                                             *)
(***************************************************************************)
MaxMolds == 2

NoWeights == [some |-> FALSE, val |-> <<>>]

\* weights None, or the list [1, 2, .., n]
WeightChoices ==
  {NoWeights} \cup
  {[some |-> TRUE, val |-> [k \in 1..n |-> RInt(k)]] : n \in 0..(MaxMolds + 1)}

ModeStrings ==
  {"max", "mean", "geom_mean", "product", "sum_limited", "weighted",
   "WEIGHTED", "median", None}

DetectModes == {"hilbert", "rms"}

FloorDbs == {-40, 0}

\* ref_lufs - cur_lufs as the loudness meter may report it
GainDbs == {-20, 0}

BadFile == [ok |-> FALSE]

\* What decoding a destination path may yield: a (C, N) buffer and its rate.
DestFiles ==
  { BadFile,
    [ok |-> TRUE, sr |-> 1000, y |-> << <<RFrac(1, 2), RInt(-1)>> >>],
    [ok |-> TRUE, sr |-> 4000,
     y |-> << <<RInt(1), RFrac(-1, 2), RFrac(1, 4)>>, <<RInt(0), RInt(1), RInt(-1)>> >>] }

\* What decoding a mold path may yield, given as the raw envelope each of the
\* two detectors (scipy's hilbert, librosa's rms) extracts from its mono mix.
MoldFiles ==
  { BadFile,
    [ok |-> TRUE, hilbert |-> <<RInt(0), RInt(2)>>, rms |-> <<RDec(5, 7), RInt(1)>>],
    [ok |-> TRUE, hilbert |-> <<RInt(3), RInt(1), RInt(0), RInt(3)>>,
     rms |-> <<RInt(2), RInt(2), RInt(1), RInt(0)>>] }

\* The configurations a run is started with.  combine_envelopes reads the
\* weights in its weighted branch only (CombineSample; SpecCombine draws
\* every mode with every weight list), so here a weight list comes with
\* combine_mode "weighted".
Configs ==
  { c \in [mode : DetectModes, attack_us : {1000}, release_us : {500},
           floor_db : FloorDbs, combine_mode : ModeStrings \ {"WEIGHTED"},
           weights : WeightChoices, match_lufs : BOOLEAN] :
      c.weights.some => c.combine_mode = "weighted" }

(***************************************************************************)
(* apply_envelopes as a state machine: one action per stage of the run.    *)
(***************************************************************************)
VARIABLES
  pc,          \* the stage about to run, or "Done" / "Failed"
  mold_paths,  \* the mold paths, numbered in list order
  cfg,         \* the configuration record
  has_loud,    \* _HAS_LOUD
  y_dst, sr, N,
  idx,         \* the loop's i (1-based position in mold_paths)
  y_m,         \* the mold just loaded
  env,         \* the envelope being built for it
  envs,        \* the envelopes collected so far
  env_src,     \* for each entry of envs, the mold path it came from
  E, y_out,
  out_file,    \* the file at out_path
  progress,    \* every value passed to progress_cb, in order
  logs,        \* every line passed to log_cb, in order
  stages,      \* the stages entered, in order
  err,         \* the exception that ended the run
  call,        \* the pure-function call under exercise, or NoCall
  wpc,         \* Worker: "none" (no thread), "created", "running", "finished"
  wsig,        \* Worker: the signals run() itself emits, in order
  ui,          \* MainWin: the lists, the active tab and the settings
  bar,         \* MainWin: the value of the progress bar
  log_empty,   \* MainWin: the log view holds no text
  workers,     \* MainWin: the Worker threads started, in order
  dialog       \* MainWin: the title of the message box shown last

pipeVars ==
  <<pc, mold_paths, cfg, has_loud, y_dst, sr, N, idx, y_m, env, envs, env_src,
    E, y_out, out_file, progress, logs, stages, err>>

workerVars == <<wpc, wsig>>

guiVars == <<ui, bar, log_empty, workers, dialog>>

\* what a stage of apply_envelopes leaves alone
outer == <<call, workerVars, guiVars>>

vars == <<pipeVars, outer>>

NoFile == [state |-> "absent"]

NoCall == [fn |-> "none"]

\* no Worker thread: apply_envelopes called directly
WorkerIdle == wpc = "none" /\ wsig = <<>>

\* no window
GuiIdle ==
  /\ ui = [tab |-> "none"] /\ bar = 0 /\ log_empty = TRUE
  /\ workers = <<>> /\ dialog = None

PipeStart ==
  /\ pc = "Start"
  /\ mold_paths \in {[k \in 1..m |-> k] : m \in 0..MaxMolds}
  /\ cfg \in Configs
  /\ has_loud \in BOOLEAN
  /\ y_dst = <<>> /\ sr = 0 /\ N = 0 /\ idx = 0
  /\ y_m = BadFile /\ env = <<>> /\ envs = <<>> /\ env_src = <<>>
  /\ E = <<>> /\ y_out = <<>>
  /\ out_file = NoFile
  /\ progress = <<>> /\ logs = <<>> /\ stages = <<>>
  /\ err = None

Init == PipeStart /\ call = NoCall /\ WorkerIdle /\ GuiIdle

Log(msg, arg) == [msg |-> msg, arg |-> arg]

\* an exception leaves apply_envelopes: nothing after the raise runs
Raise(kind) == pc' = "Failed" /\ err' = kind

\* mutant: the output file is opened for writing when the run starts
Start_OpensOutput ==
  /\ UNCHANGED outer
  /\ pc = "Start"
  /\ progress' = Append(progress, 2)
  /\ logs' = Append(logs, Log("Destino", "dest"))
  /\ out_file' = [state |-> "partial"]
  /\ pc' = "LoadDestination"
  /\ UNCHANGED <<mold_paths, cfg, has_loud, y_dst, sr, N, idx, y_m, env, envs,
                 env_src, E, y_out, stages, err>>

\* line 104
Start ==
  /\ UNCHANGED outer
  /\ pc = "Start"
  /\ progress' = Append(progress, 2)
  /\ logs' = Append(logs, Log("Destino", "dest"))
  /\ pc' = "LoadDestination"
  /\ UNCHANGED <<mold_paths, cfg, has_loud, y_dst, sr, N, idx, y_m, env, envs,
                 env_src, E, y_out, out_file, stages, err>>

\* lines 105-123
LoadDestination ==
  /\ UNCHANGED outer
  /\ pc = "LoadDestination"
  /\ stages' = Append(stages, "LoadDestination")
  /\ \E f \in DestFiles :
       IF ~f.ok
       THEN /\ Raise("DecodeError")
            /\ UNCHANGED <<y_dst, sr, N, idx, progress>>
       ELSE LET buf == [c \in 1..Len(f.y) |-> LiftSeq(f.y[c])]
            IN  /\ y_dst' = buf
                /\ sr' = f.sr
                /\ N' = Len(to_mono(buf))
                /\ progress' = Append(progress, 5)
                /\ idx' = 1
                /\ pc' = "LoadMold"
                /\ err' = err
  /\ UNCHANGED <<mold_paths, cfg, has_loud, y_m, env, envs, env_src, E, y_out,
                 out_file, logs>>

\* lines 124-127: the next mold of the loop
LoadMold ==
  /\ UNCHANGED outer
  /\ pc = "LoadMold"
  /\ idx <= Len(mold_paths)
  /\ stages' = Append(stages, "LoadMold")
  /\ logs' = Append(logs, Log("Cargando molde", mold_paths[idx]))
  /\ \E f \in MoldFiles :
       IF ~f.ok
       THEN Raise("DecodeError") /\ y_m' = y_m
       ELSE y_m' = f /\ pc' = "ExtractEnvelope" /\ err' = err
  /\ UNCHANGED <<mold_paths, cfg, has_loud, y_dst, sr, N, idx, env, envs, env_src,
                 E, y_out, out_file, progress>>

\* lines 129-133
ExtractEnvelope ==
  /\ UNCHANGED outer
  /\ pc = "ExtractEnvelope"
  /\ stages' = Append(stages, "ExtractEnvelope")
  /\ env' = IF cfg.mode = "rms" THEN y_m.rms ELSE y_m.hilbert
  /\ pc' = "ConditionEnvelope"
  /\ UNCHANGED <<mold_paths, cfg, has_loud, y_dst, sr, N, idx, y_m, envs, env_src,
                 E, y_out, out_file, progress, logs, err>>

\* mutant: envs.insert(0, env)
Collect_Front(list, x) == <<x>> \o list

\* envs.append(env)
Collect(list, x) == Append(list, x)

\* mutant: the molds take the whole remaining range, 5 + int(95 * i / total_m)
MoldProgress_FullBand(i, M) == 5 + (95 * i) \div Max2(1, M)

\* mutant: the band is not divided by the number of molds
MoldProgress_NoDivide(i, M) == 5 + 60 * i

\* 5 + int(60 * i / total_m), total_m = max(1, len(mold_paths))
MoldProgress(i, M) == 5 + (60 * i) \div Max2(1, M)

\* lines 135-146
ConditionEnvelope ==
  /\ UNCHANGED outer
  /\ pc = "ConditionEnvelope"
  /\ stages' = Append(stages, "ConditionEnvelope")
  /\ LET normed == Normalize(env)
         smoothed == smooth_envelope(normed, sr, cfg.attack_us, cfg.release_us)
         looped == loop_to_length(smoothed, N)
     IN  /\ env' = looped
         /\ envs' = Collect(envs, looped)
  /\ env_src' = Collect(env_src, mold_paths[idx])
  /\ progress' = Append(progress, MoldProgress(idx, Len(mold_paths)))
  /\ idx' = idx + 1
  /\ pc' = "LoadMold"
  /\ UNCHANGED <<mold_paths, cfg, has_loud, y_dst, sr, N, y_m, E, y_out, out_file,
                 logs, err>>

\* lines 148-153, entered when the loop over mold_paths has ended
Combine ==
  /\ UNCHANGED outer
  /\ pc = "LoadMold"
  /\ idx > Len(mold_paths)
  /\ IF envs = <<>>
     THEN /\ Raise("NoValidMolds")
          /\ UNCHANGED <<E, logs, stages>>
     ELSE /\ stages' = Append(stages, "Combine")
          /\ logs' = Append(logs, Log("Combinando envelopes", Lower(cfg.combine_mode)))
          /\ IF CombineRaises(envs, Lower(cfg.combine_mode), cfg.weights)
             THEN Raise("InvalidWeights") /\ E' = E
             ELSE /\ E' = combine_envelopes(envs, Lower(cfg.combine_mode), cfg.weights)
                  /\ pc' = "Clamp"
                  /\ err' = err
  /\ UNCHANGED <<mold_paths, cfg, has_loud, y_dst, sr, N, idx, y_m, env, envs,
                 env_src, y_out, out_file, progress>>

\* lines 155-157
Clamp ==
  /\ UNCHANGED outer
  /\ pc = "Clamp"
  /\ stages' = Append(stages, "Clamp")
  /\ E' = FloorClamp(E, db_to_lin(cfg.floor_db))
  /\ pc' = "Apply"
  /\ UNCHANGED <<mold_paths, cfg, has_loud, y_dst, sr, N, idx, y_m, env, envs,
                 env_src, y_out, out_file, progress, logs, err>>

\* lines 159-164
Apply ==
  /\ UNCHANGED outer
  /\ pc = "Apply"
  /\ stages' = Append(stages, "Apply")
  /\ y_out' = [c \in 1..Len(y_dst) |-> [t \in 1..N |-> VMul(y_dst[c][t], E[t])]]
  /\ progress' = Append(progress, 90)
  /\ pc' = "LoudnessMatch"
  /\ UNCHANGED <<mold_paths, cfg, has_loud, y_dst, sr, N, idx, y_m, env, envs,
                 env_src, E, out_file, logs, err>>

\* mutant: the test is "if match_lufs_flag:" alone
LoudnessMatch_FlagOnly ==
  /\ UNCHANGED outer
  /\ pc = "LoudnessMatch"
  /\ IF cfg.match_lufs
     THEN \E gain_db \in GainDbs :
            /\ y_out' = [c \in 1..Len(y_out) |->
                           [t \in 1..N |-> VScale(y_out[c][t], db_to_lin(gain_db))]]
            /\ logs' = Append(logs, Log("LUFS match", gain_db))
            /\ stages' = Append(stages, "LoudnessMatch")
     ELSE UNCHANGED <<y_out, logs, stages>>
  /\ pc' = "Write"
  /\ UNCHANGED <<mold_paths, cfg, has_loud, y_dst, sr, N, idx, y_m, env, envs,
                 env_src, E, out_file, progress, err>>

\* lines 166-174: the gain is what the external loudness meter makes it
LoudnessMatch ==
  /\ UNCHANGED outer
  /\ pc = "LoudnessMatch"
  /\ IF cfg.match_lufs /\ has_loud
     THEN \E gain_db \in GainDbs :
            /\ y_out' = [c \in 1..Len(y_out) |->
                           [t \in 1..N |-> VScale(y_out[c][t], db_to_lin(gain_db))]]
            /\ logs' = Append(logs, Log("LUFS match", gain_db))
            /\ stages' = Append(stages, "LoudnessMatch")
     ELSE UNCHANGED <<y_out, logs, stages>>
  /\ pc' = "Write"
  /\ UNCHANGED <<mold_paths, cfg, has_loud, y_dst, sr, N, idx, y_m, env, envs,
                 env_src, E, out_file, progress, err>>

\* lines 176-179; sf.write may itself fail, leaving nothing or a partial file
Write ==
  /\ UNCHANGED outer
  /\ pc = "Write"
  /\ \/ /\ out_file' = [state |-> "written", sr |-> sr, data |-> to_mono(y_out)]
        /\ progress' = Append(progress, 100)
        /\ logs' = Append(logs, Log("Escrito", "out"))
        /\ stages' = Append(Append(stages, "Write"), "Done")
        /\ pc' = "Done"
        /\ err' = err
     \/ /\ out_file' \in {out_file, [state |-> "partial"]}
        /\ stages' = Append(stages, "Write")
        /\ Raise("WriteError")
        /\ UNCHANGED <<progress, logs>>
  /\ UNCHANGED <<mold_paths, cfg, has_loud, y_dst, sr, N, idx, y_m, env, envs,
                 env_src, E, y_out>>

Next ==
  \/ Start
  \/ LoadDestination
  \/ LoadMold
  \/ ExtractEnvelope
  \/ ConditionEnvelope
  \/ Combine
  \/ Clamp
  \/ Apply
  \/ LoudnessMatch
  \/ Write

(***************************************************************************)
(* A harness for the pure functions: one call, its arguments drawn from    *)
(* bounded sets, and what it returned.                                     *)
(***************************************************************************)
\* the pipeline at rest while a pure function is exercised
PipeIdle ==
  /\ pc = "Idle" /\ mold_paths = <<>> /\ cfg = [mode |-> "hilbert"] /\ has_loud = FALSE
  /\ y_dst = <<>> /\ sr = 0 /\ N = 0 /\ idx = 0
  /\ y_m = BadFile /\ env = <<>> /\ envs = <<>> /\ env_src = <<>>
  /\ E = <<>> /\ y_out = <<>>
  /\ out_file = NoFile
  /\ progress = <<>> /\ logs = <<>> /\ stages = <<>>
  /\ err = None

Spec == Init /\ [][Next]_vars

\* ---- loop_to_length ----
MaxArr == 3

LoopVals == {RZero, RFrac(1, 2), ROne}

SeqsOver(S, lo, hi) == UNION {[1..n -> S] : n \in lo..hi}

LoopInit ==
  /\ PipeIdle /\ WorkerIdle /\ GuiIdle
  /\ call \in {[fn |-> "loop_to_length", arr |-> a, length |-> n,
                done |-> FALSE, ret |-> <<>>] :
                 a \in SeqsOver(LoopVals, 1, MaxArr), n \in 0..(10 * MaxArr)}

CallLoop ==
  /\ call.fn = "loop_to_length" /\ ~call.done
  /\ call' = [call EXCEPT !.done = TRUE, !.ret = loop_to_length(call.arr, call.length)]
  /\ UNCHANGED <<pipeVars, workerVars, guiVars>>

SpecLoop == LoopInit /\ [][CallLoop]_vars

\* ---- smooth_envelope ----
SmoothRates == {1000, 4000}

\* attack and release times in microseconds (0.5, 1, 1.6 and 2.4 ms)
AttackTimes == {500, 1000, 1600, 2400}

ReleaseTimes == {500, 1000, 1600}

SmoothInit ==
  /\ PipeIdle /\ WorkerIdle /\ GuiIdle
  /\ call \in {[fn |-> "smooth_envelope", env |-> e, sr |-> r, attack_us |-> a,
                release_us |-> b, done |-> FALSE, raised |-> FALSE, atk |-> 0,
                rel |-> 0, ret |-> <<>>] :
                 e \in SeqsOver(LoopVals, 0, MaxArr), r \in SmoothRates,
                 a \in AttackTimes, b \in ReleaseTimes}

CallSmooth ==
  /\ call.fn = "smooth_envelope" /\ ~call.done
  /\ call' = [call EXCEPT
                !.done = TRUE,
                !.atk = TimeConstant(call.sr, call.attack_us),
                !.rel = TimeConstant(call.sr, call.release_us),
                !.raised = SmoothRaises(call.env),
                !.ret = IF SmoothRaises(call.env) THEN <<>>
                        ELSE smooth_envelope(call.env, call.sr, call.attack_us,
                                             call.release_us)]
  /\ UNCHANGED <<pipeVars, workerVars, guiVars>>

SpecSmooth == SmoothInit /\ [][CallSmooth]_vars

\* ---- combine_envelopes ----
MaxCells == 3

\* 0, a value under the geom_mean clip (1e-12), one under the product clip
\* (1e-6), and one above 1
CombVals == {RZero, RDec(5, 13), RDec(5, 7), RDec(15, 1)}

\* M envelopes of N samples each, M * N <= MaxCells
CombEnvs ==
  UNION {[1..M -> [1..n -> CombVals]] :
           <<M, n>> \in {mn \in (1..MaxCells) \X (1..MaxCells) : mn[1] * mn[2] <= MaxCells}}

CombWeights ==
  {NoWeights} \cup
  {[some |-> TRUE, val |-> [k \in 1..n |-> RInt(k)]] : n \in 0..(MaxCells + 1)}

\* the mode argument: the strings a run is configured with, and the empty one
CombModes == ModeStrings \cup {""}

CombineInit ==
  /\ PipeIdle /\ WorkerIdle /\ GuiIdle
  /\ call \in {[fn |-> "combine_envelopes", envs |-> e, mode |-> m, weights |-> w,
                done |-> FALSE, raised |-> FALSE, ret |-> <<>>] :
                 e \in CombEnvs, m \in CombModes, w \in CombWeights}

CallCombine ==
  /\ call.fn = "combine_envelopes" /\ ~call.done
  /\ call' = IF CombineRaises(call.envs, call.mode, call.weights)
             THEN [call EXCEPT !.done = TRUE, !.raised = TRUE]
             ELSE [call EXCEPT !.done = TRUE,
                               !.ret = combine_envelopes(call.envs, call.mode, call.weights)]
  /\ UNCHANGED <<pipeVars, workerVars, guiVars>>

SpecCombine == CombineInit /\ [][CallCombine]_vars

(***************************************************************************)
(* Worker (src/app.py): a thread whose run() wraps one call of             *)
(* apply_envelopes, turning its callbacks into the signals progressed and  *)
(* logged and its outcome into finished_ok or failed.                      *)
(***************************************************************************)
\* a signal run() emits itself, with the number of progressed and logged
\* signals the callbacks had emitted before it
Sig(name, arg) ==
  [sig |-> name, arg |-> arg, nprog |-> Len(progress), nlog |-> Len(logs)]

WorkerInit ==
  /\ PipeStart /\ call = NoCall /\ GuiIdle
  /\ wpc = "created" /\ wsig = <<>>

\* start() enters run(): _l("Iniciando procesamiento...")
WorkerBegin ==
  /\ wpc = "created"
  /\ wpc' = "running"
  /\ wsig' = Append(wsig, Sig("logged", "Iniciando procesamiento"))
  /\ UNCHANGED <<pipeVars, call, guiVars>>

\* a stage of apply_envelopes, run inside the try block
WorkerRun == wpc = "running" /\ Next

\* mutant: finished_ok is emitted after the try statement, whatever happened
WorkerFinishedOk_AfterTry ==
  /\ wpc = "running" /\ pc \in {"Done", "Failed"}
  /\ wsig' = Append(wsig, Sig("finished_ok", "out"))
  /\ wpc' = "finished"
  /\ UNCHANGED <<pipeVars, call, guiVars>>

\* apply_envelopes returned: finished_ok.emit(out_path)
WorkerFinishedOk ==
  /\ wpc = "running" /\ pc = "Done"
  /\ wsig' = Append(wsig, Sig("finished_ok", "out"))
  /\ wpc' = "finished"
  /\ UNCHANGED <<pipeVars, call, guiVars>>

\* apply_envelopes raised: failed.emit(traceback)
WorkerFailed ==
  /\ wpc = "running" /\ pc = "Failed"
  /\ wsig' = Append(wsig, Sig("failed", err))
  /\ wpc' = "finished"
  /\ UNCHANGED <<pipeVars, call, guiVars>>

WorkerNext == WorkerBegin \/ WorkerRun \/ WorkerFinishedOk \/ WorkerFailed

SpecWorker == WorkerInit /\ [][WorkerNext]_vars

(***************************************************************************)
(* MainWin (src/app.py): the run button, the progress bar and the log      *)
(* view.  Text fields are sequences of characters.                         *)
(***************************************************************************)
RECURSIVE LStrip(_)
LStrip(t) == IF t # <<>> /\ Head(t) = " " THEN LStrip(Tail(t)) ELSE t

\* str.strip()
Strip(t) == Reverse(LStrip(Reverse(LStrip(t))))

RECURSIVE Split(_, _)
\* str.split(sep): the pieces between the separators, empty ones included
Split(t, sep) ==
  IF \A k \in 1..Len(t) : t[k] # sep THEN <<t>>
  ELSE LET k == CHOOSE i \in 1..Len(t) :
                  t[i] = sep /\ \A j \in 1..(i - 1) : t[j] # sep
       IN  <<SubSeq(t, 1, k - 1)>> \o Split(SubSeq(t, k + 1, Len(t)), sep)

\* float(x) succeeds: digits, blanks around them allowed (over the
\* characters the model draws)
IsFloat(x) ==
  LET d == Strip(x) IN d # <<>> /\ \A k \in 1..Len(d) : d[k] = "1"

\* [float(x) for x in wtxt.split(",")] raises nothing
WeightsParse(wtxt) ==
  LET parts == Split(wtxt, ",") IN \A k \in 1..Len(parts) : IsFloat(parts[k])

\* mutant: the list of the advanced tab is returned whatever tab is shown
active_mold_paths_Advanced(u) == u.mold_list

\* MainWin._active_mold_paths
active_mold_paths(u) == IF u.tab = "basic" THEN u.basic_list ELSE u.mold_list

\* the early returns of on_run: the title of the warning shown, or "start"
OnRunCheck(u) ==
  IF active_mold_paths(u) = <<>> THEN "Faltan moldes"
  ELSE IF u.dest_list = <<>> THEN "Falta destino"
  ELSE IF ~u.auto_name /\ Strip(u.out_path) = <<>> THEN "Falta salida"
  ELSE IF Strip(u.weights) # <<>> /\ ~WeightsParse(Strip(u.weights))
       THEN "Weights invalidos"
  ELSE "start"

MaxWorkers == 2

PathLists(n) == {<<>>, [k \in 1..n |-> k]}

OutTexts == {<<>>, <<" ">>, <<"o">>}

WeightTexts ==
  {<<>>, <<" ">>, <<"1">>, <<"1", ",", "1">>, <<"1", ",", " ", "1">>,
   <<"1", ",">>, <<"x">>, <<"1", ",", "x">>}

UiStates ==
  [tab : {"basic", "advanced"}, basic_list : PathLists(1),
   mold_list : PathLists(MaxMolds), dest_list : PathLists(1),
   auto_name : BOOLEAN, out_path : OutTexts, weights : WeightTexts]

\* the signals of one run of apply_envelopes on M molds that ends well, as
\* Worker.run emits them
P(v) == [sig |-> "progressed", v |-> v]

L(msg) == [sig |-> "logged", v |-> msg]

RECURSIVE MoldSignals(_, _)
MoldSignals(i, M) ==
  IF i = 0 THEN <<>>
  ELSE MoldSignals(i - 1, M) \o <<L("Cargando molde"), P(MoldProgress(i, M))>>

Script(M) ==
  <<L("Iniciando procesamiento"), P(2), L("Destino"), P(5)>>
    \o MoldSignals(M, M)
    \o <<L("Combinando envelopes"), P(90), P(100), L("Escrito")>>

\* the numbers of signals emitted after which the run may raise: loading the
\* destination, loading a mold, combining (weights), writing
FailPoints(M) ==
  {3} \cup {3 + 2 * i : i \in 1..M} \cup {2 * M + 5, 2 * M + 6}

\* the window as first shown
GuiFresh ==
  /\ PipeIdle /\ WorkerIdle /\ call = NoCall
  /\ ui \in UiStates
  /\ bar = 0 /\ log_empty = TRUE /\ workers = <<>> /\ dialog = None

\* the window at rest: as first shown, or after an earlier run ended well
\* (bar at 100) or failed on its first mold (bar at 5)
GuiAtRest ==
  /\ PipeIdle /\ WorkerIdle /\ call = NoCall
  /\ ui \in UiStates
  /\ workers = <<>>
  /\ \/ bar = 0 /\ log_empty = TRUE /\ dialog = None
     \/ bar = 100 /\ log_empty = FALSE /\ dialog = "Listo"
     \/ bar = 5 /\ log_empty = FALSE /\ dialog = "Error"

\* MainWin.on_run, the slot of the run button
on_run ==
  /\ IF OnRunCheck(ui) # "start"
     THEN /\ dialog' = OnRunCheck(ui)
          /\ UNCHANGED <<bar, log_empty, workers>>
     ELSE /\ Len(workers) < MaxWorkers
          /\ bar' = 0
          /\ log_empty' = TRUE
          /\ workers' = Append(workers, [M |-> Len(active_mold_paths(ui)),
                                         at |-> 0, st |-> "running"])
          /\ dialog' = dialog
  /\ UNCHANGED <<ui, pipeVars, call, workerVars>>

\* a progressed or logged signal of a running Worker reaches its slot:
\* progress.setValue or append_log
DeliverSignal ==
  \E i \in 1..Len(workers) :
    LET w == workers[i] IN
    /\ w.st = "running" /\ w.at < Len(Script(w.M))
    /\ LET sg == Script(w.M)[w.at + 1]
       IN  IF sg.sig = "progressed"
           THEN bar' = sg.v /\ log_empty' = log_empty
           ELSE bar' = bar /\ log_empty' = FALSE
    /\ workers' = [workers EXCEPT ![i].at = w.at + 1]
    /\ UNCHANGED <<ui, dialog, pipeVars, call, workerVars>>

\* finished_ok reaches MainWin.on_done
on_done ==
  \E i \in 1..Len(workers) :
    LET w == workers[i] IN
    /\ w.st = "running" /\ w.at = Len(Script(w.M))
    /\ log_empty' = FALSE
    /\ dialog' = "Listo"
    /\ workers' = [workers EXCEPT ![i].st = "ok"]
    /\ UNCHANGED <<ui, bar, pipeVars, call, workerVars>>

\* failed reaches MainWin.on_fail
on_fail ==
  \E i \in 1..Len(workers) :
    LET w == workers[i] IN
    /\ w.st = "running" /\ w.at \in FailPoints(w.M)
    /\ log_empty' = FALSE
    /\ dialog' = "Error"
    /\ workers' = [workers EXCEPT ![i].st = "failed"]
    /\ UNCHANGED <<ui, bar, pipeVars, call, workerVars>>

GuiNext == on_run \/ DeliverSignal \/ on_done \/ on_fail

SpecGui == GuiFresh /\ [][GuiNext]_vars

\* on_run alone, on the window at rest
SpecOnRun == GuiAtRest /\ [][on_run]_vars

(***************************************************************************)
(* The claims.                                                             *)
(***************************************************************************)
HasStage(st) == \E k \in 1..Len(stages) : stages[k] = st

CountStage(st) == Cardinality({k \in 1..Len(stages) : stages[k] = st})

\* number of weights handed in (None counts as none)
WeightCount(w) == IF w.some THEN Len(w.val) ELSE 0

\* C1: every value passed to progress_cb is an integer in 0..100 and the
\* values never decrease, on succeeding and on failing runs, for every number
\* of molds.
C1_ProgressMonotone ==
  \A k \in 1..Len(progress) :
    /\ progress[k] \in 0..100
    /\ k > 1 => progress[k - 1] <= progress[k]

C1_Witness ==
  /\ pc = "Done"
  /\ Len(mold_paths) = 2
  /\ progress = <<2, 5, 35, 65, 90, 100>>

\* C2: the output file is touched by the write step only, and the write step
\* is never reached on a run that fails on a decode error, on zero envelopes
\* or on invalid weights: the file at out_path is then as it was.
C2_WriteOnlyOnSuccess ==
  /\ out_file # NoFile => HasStage("Write")
  /\ (pc = "Failed" /\ err \in {"DecodeError", "NoValidMolds", "InvalidWeights"})
       => (out_file = NoFile /\ ~HasStage("Write"))

C2_Witness ==
  /\ pc = "Failed"
  /\ err = "InvalidWeights"
  /\ Len(envs) = 2
  /\ out_file = NoFile

\* C3 (as claimed): a mold that cannot be decoded is skipped, so a run that
\* has built an envelope from a decodable mold does not fail on a decode
\* error of another mold.
C3_BadMoldSkipped ==
  ~(pc = "Failed" /\ err = "DecodeError" /\ envs # <<>>)

\* C4 (as claimed): a run whose destination loaded and which fails having
\* produced zero envelopes fails with the no-valid-molds error, after every
\* mold path was attempted, and writes nothing.
C4_ZeroEnvelopesNoValidMolds ==
  (pc = "Failed" /\ Len(progress) >= 2 /\ envs = <<>>)
    => /\ err = "NoValidMolds"
       /\ CountStage("LoadMold") = Len(mold_paths)
       /\ ~HasStage("Combine")
       /\ out_file = NoFile

\* C5: combine_envelopes raises exactly when the mode is weighted and the
\* number of weights (0 when absent or empty) differs from the number of
\* envelopes; in every other mode no weights argument makes it raise.
C5_WeightCountChecked ==
  (call.fn = "combine_envelopes" /\ call.done) =>
    (call.raised <=>
       (/\ call.mode \in {"weighted", "WEIGHTED"}
        /\ WeightCount(call.weights) # Len(call.envs)))

C5_Witness ==
  /\ call.fn = "combine_envelopes" /\ call.done /\ ~call.raised
  /\ call.mode = "weighted"
  /\ Len(call.envs) = 2
  /\ WeightCount(call.weights) = 2

RECURSIVE MoldStages(_)
MoldStages(m) ==
  IF m = 0 THEN <<>>
  ELSE MoldStages(m - 1) \o <<"LoadMold", "ExtractEnvelope", "ConditionEnvelope">>

\* C7: a successful run enters its stages in the order LoadDestination, then
\* LoadMold, ExtractEnvelope, ConditionEnvelope once per mold in list order,
\* then Combine, Clamp, Apply, the loudness match when it applies, Write,
\* Done; and envelope i handed to the combiner comes from mold path i.
C7_StageOrder ==
  pc = "Done" =>
    /\ stages = <<"LoadDestination">> \o MoldStages(Len(mold_paths))
                  \o <<"Combine", "Clamp", "Apply">>
                  \o (IF cfg.match_lufs /\ has_loud THEN <<"LoudnessMatch">> ELSE <<>>)
                  \o <<"Write", "Done">>
    /\ env_src = mold_paths
    /\ Len(envs) = Len(mold_paths)

C7_Witness ==
  /\ pc = "Done"
  /\ Len(mold_paths) = 2
  /\ HasStage("LoudnessMatch")

\* C8: loop_to_length(arr, N) for a non-empty arr returns exactly N samples,
\* the i-th (from 0) being arr[i mod len(arr)].
C8_LoopToLength ==
  (call.fn = "loop_to_length" /\ call.done) =>
    /\ Len(call.ret) = call.length
    /\ \A i \in 0..(call.length - 1) :
         call.ret[i + 1] = call.arr[(i % Len(call.arr)) + 1]

C8_Witness ==
  /\ call.fn = "loop_to_length" /\ call.done
  /\ Len(call.arr) = 2 /\ call.arr[1] # call.arr[2]
  /\ call.length = 10 * Len(call.arr)
  /\ Len(call.ret) = 20

SingleEnvelope ==
  /\ call.fn = "combine_envelopes" /\ call.done /\ ~call.raised
  /\ Len(call.envs) = 1

\* C9 (as claimed): with a single input envelope combine_envelopes returns it
\* unchanged, sample for sample, in max, mean, geom_mean, product and
\* sum_limited, and in weighted with weight 1.
C9_SingleUnchanged ==
  (SingleEnvelope /\ call.mode \in {"max", "mean", "geom_mean", "product",
                                    "sum_limited", "weighted"})
    => VSeqEq(call.ret, LiftSeq(call.envs[1]))

\* C9 (amended): with a single input envelope e, combine_envelopes returns e
\* unchanged in max, mean and sum_limited; max(e, 1e-6) in product and
\* max(e, 1e-12) in geom_mean, sample by sample, so that a sample under the
\* clip threshold (0 included) is raised to it; and e / (1 + 1e-12) in
\* weighted with weight 1.
C9_SingleClipped ==
  SingleEnvelope =>
    LET e == call.envs[1]
        r == call.ret
    IN  /\ Len(r) = Len(e)
        /\ \A t \in 1..Len(e) :
             /\ r[t].deg = 1
             /\ CASE call.mode \in {"max", "mean", "sum_limited"} -> REq(r[t].c, e[t])
                  [] call.mode = "product" -> REq(r[t].c, RMax(e[t], RDec(1, 6)))
                  [] call.mode = "geom_mean" -> REq(r[t].c, RMax(e[t], RDec(1, 12)))
                  [] call.mode \in {"weighted", "WEIGHTED"} ->
                       REq(RMul(r[t].c, RAdd(ROne, RDec(1, 12))), e[t])
                  [] OTHER -> TRUE

C9_Witness ==
  /\ SingleEnvelope
  /\ call.mode = "product"
  /\ Len(call.envs[1]) = 2
  /\ REq(call.envs[1][1], RDec(5, 7))
  /\ REq(call.ret[1].c, RDec(1, 6))
  /\ REq(call.envs[1][2], RDec(15, 1))
  /\ REq(call.ret[2].c, RDec(15, 1))

\* 10^(floor_db / 20) for the floor levels the model draws
FloorLin == IF cfg.floor_db = -40 THEN RFrac(1, 100) ELSE ROne

\* C10: the floor clamp leaves every sample of the combined envelope at or
\* above floorLin = 10^(floor_db/20) (0.01 for -40 dB), in every combine mode;
\* a sample already at or above floorLin is left as it is, above 1 too.
C10_FloorClamp ==
  [][pc = "Clamp" =>
       /\ Len(E') = Len(E)
       /\ \A t \in 1..Len(E) :
            /\ VLeq(VLift(FloorLin), E'[t])
            /\ VLeq(VLift(FloorLin), E[t]) => E'[t] = E[t]]_vars

C10_Witness ==
  /\ pc = "Apply"
  /\ cfg.floor_db = -40
  /\ \E t \in 1..Len(E) : VEq(E[t], VLift(RFrac(1, 100)))
  /\ \E t \in 1..Len(E) : ~VLeq(E[t], VLift(ROne))

CombineReturned == call.fn = "combine_envelopes" /\ call.done /\ ~call.raised

\* C11: in sum_limited every combined sample is the smaller of the sum of the
\* envelopes' samples and 1.5 times their largest sample, so it never exceeds
\* 1.5 times the pointwise maximum (the envelopes being non-negative).
C11_SumLimited ==
  (CombineReturned /\ call.mode = "sum_limited") =>
    \A t \in 1..Len(call.envs[1]) :
      LET col == Column(call.envs, t)
          r == call.ret[t]
      IN  /\ r.deg = 1
          /\ \E m \in 1..Len(col) :
               LET limit == RMul(col[m], RDec(15, 1))
               IN  /\ \A k \in 1..Len(col) : RLeq(col[k], col[m])
                   /\ RLeq(r.c, limit)
                   /\ RLeq(r.c, RSumOf(col))
                   /\ REq(r.c, limit) \/ REq(r.c, RSumOf(col))

C11_Witness ==
  /\ CombineReturned /\ call.mode = "sum_limited"
  /\ Len(call.envs) = 2
  /\ REq(call.envs[1][1], RDec(15, 1)) /\ REq(call.envs[2][1], RDec(15, 1))
  /\ REq(call.ret[1].c, RDec(225, 2))

Perms(n) == {p \in [1..n -> 1..n] : \A i, j \in 1..n : p[i] = p[j] => i = j}

Permuted(es, p) == [m \in 1..Len(es) |-> es[p[m]]]

\* C12: in max, mean, geom_mean, product and sum_limited the result of
\* combine_envelopes is the same for every permutation of the envelope list.
C12_OrderIrrelevant ==
  (CombineReturned /\ call.mode \in {"max", "mean", "geom_mean", "product",
                                     "sum_limited"}) =>
    \A p \in Perms(Len(call.envs)) :
      VSeqEq(combine_envelopes(Permuted(call.envs, p), call.mode, call.weights),
             call.ret)

C12_Witness ==
  /\ CombineReturned /\ call.mode = "max"
  /\ Len(call.envs) = 3
  /\ REq(call.envs[1][1], RZero)
  /\ REq(call.envs[2][1], RDec(5, 7))
  /\ REq(call.envs[3][1], RDec(15, 1))
  /\ REq(call.ret[1].c, RDec(15, 1))

KnownModes == {"max", "mean", "geom_mean", "product", "sum_limited", "weighted"}

\* C13 (as claimed): every mode string that is not one of the six mode names
\* (the empty and the missing one included) returns what mode max returns,
\* without raising.
C13_UnknownIsMax ==
  (call.fn = "combine_envelopes" /\ call.done /\ call.mode \notin KnownModes) =>
    /\ ~call.raised
    /\ VSeqEq(call.ret, combine_envelopes(call.envs, "max", NoWeights))

\* C13 (amended): the mode is matched after lower-casing.  A mode string whose
\* lower-cased form is not one of the six names (the empty and the missing
\* one included) returns what max returns, without raising, whatever the
\* weights; a mixed-case spelling of a name selects that mode, so "WEIGHTED"
\* is weighted mode and raises on a wrong number of weights.
C13_UnknownLowerIsMax ==
  (call.fn = "combine_envelopes" /\ call.done) =>
    /\ call.mode \notin (KnownModes \cup {"WEIGHTED"}) =>
         /\ ~call.raised
         /\ \A t \in 1..Len(call.ret) :
              /\ call.ret[t].deg = 1
              /\ \A m \in 1..Len(call.envs) : RLeq(call.envs[m][t], call.ret[t].c)
              /\ \E m \in 1..Len(call.envs) : REq(call.envs[m][t], call.ret[t].c)
    /\ call.mode = "WEIGHTED" =>
         /\ call.raised <=> WeightCount(call.weights) # Len(call.envs)
         /\ ~call.raised =>
              VSeqEq(call.ret, combine_envelopes(call.envs, "weighted", call.weights))

C13_Witness ==
  /\ CombineReturned /\ call.mode = "median"
  /\ Len(call.envs) = 2
  /\ WeightCount(call.weights) = 3
  /\ REq(call.envs[1][1], RDec(5, 7)) /\ REq(call.envs[2][1], RDec(15, 1))
  /\ REq(call.ret[1].c, RDec(15, 1))

HasLog(msg) == \E k \in 1..Len(logs) : logs[k].msg = msg

\* C14: when match_lufs is set without the loudness capability, and whenever
\* match_lufs is not set, the loudness step raises nothing, logs nothing,
\* leaves the processed buffer as it is and hands over to the write step.
C14_LoudnessSkipped ==
  [][(pc = "LoudnessMatch" /\ ~(cfg.match_lufs /\ has_loud)) =>
       /\ y_out' = y_out
       /\ logs' = logs
       /\ stages' = stages
       /\ err' = None
       /\ pc' = "Write"]_vars

C14_Witness ==
  /\ pc = "Done"
  /\ cfg.match_lufs /\ ~has_loud
  /\ ~HasLog("LUFS match") /\ ~HasStage("LoudnessMatch")
  /\ out_file.state = "written"

\* the mean over the channels of the destination's samples at index t
DestMean(t) ==
  RDiv(RSumOf([c \in 1..Len(y_dst) |-> y_dst[c][t].c]), RInt(Len(y_dst)))

\* the gain of the loudness match of this run, 1 when the step was skipped
LoudnessGain ==
  IF HasLog("LUFS match")
  THEN db_to_lin((CHOOSE l \in {logs[k] : k \in 1..Len(logs)} : l.msg = "LUFS match").arg)
  ELSE ROne

\* C15 (as claimed): the written buffer is one channel of N samples, sample t
\* being the mean over the destination's channels of destination[c][t] * E[t].
C15_MonoMeanOfProduct ==
  pc = "Done" =>
    /\ Len(out_file.data) = N
    /\ \A t \in 1..N : VEq(out_file.data[t], VScale(E[t], DestMean(t)))

\* C15 (amended): the written buffer is one channel of N samples, sample t
\* being g times the mean over the destination's channels of
\* destination[c][t] * E[t], where g is the gain of the loudness match and 1
\* when that step is skipped.
C15_MonoMeanTimesGain ==
  pc = "Done" =>
    /\ Len(out_file.data) = N
    /\ \A t \in 1..N :
         VEq(out_file.data[t], VScale(E[t], RMul(DestMean(t), LoudnessGain)))

C15_Witness ==
  /\ pc = "Done"
  /\ Len(y_dst) = 2
  /\ HasLog("LUFS match") /\ REq(LoudnessGain, RFrac(1, 10))
  /\ Len(out_file.data) = 3

\* C17: the progress value 100 is emitted exactly when the write has
\* completed, as the last value of a run that is then done; before the write
\* every value is at most 90, the values of the mold band at most 65; a
\* failed run ends on a value under 100.
C17_HundredIffWritten ==
  /\ (\E k \in 1..Len(progress) : progress[k] = 100) <=> out_file.state = "written"
  /\ \A k \in 1..Len(progress) :
       /\ progress[k] = 100 => (k = Len(progress) /\ pc = "Done")
       /\ progress[k] \notin {90, 100} => progress[k] <= 65
       /\ ~HasStage("Write") => progress[k] <= 90
  /\ pc = "Failed" => (progress # <<>> /\ progress[Len(progress)] < 100)

C17_Witness ==
  /\ pc = "Failed" /\ err = "WriteError"
  /\ Len(mold_paths) = 1
  /\ progress = <<2, 5, 65, 90>>

\* p / q rounded to the nearest integer (p >= 0, q > 0)
RoundDiv(p, q) == (2 * p + q) \div (2 * q)

\* C16 (as claimed): the time constants of smooth_envelope are
\* max(1, round(sr * attack_ms / 1000)) and max(1, round(sr * release_ms / 1000)),
\* the product being rounded to the nearest integer.
C16_TauRounded ==
  (call.fn = "smooth_envelope" /\ call.done) =>
    /\ call.atk = Max2(1, RoundDiv(call.sr * call.attack_us, 1000000))
    /\ call.rel = Max2(1, RoundDiv(call.sr * call.release_us, 1000000))

Terminals == {k \in 1..Len(wsig) : wsig[k].sig \in {"finished_ok", "failed"}}

\* C18: Worker.run emits exactly one terminal signal, finished_ok exactly when
\* apply_envelopes returned and failed exactly when it raised; it is the last
\* signal of the run, after every progressed and logged one, and the
\* "Iniciando procesamiento" log precedes every progress value.
C18_OneTerminalSignal ==
  /\ Cardinality(Terminals) <= 1
  /\ wpc = "finished" <=> Terminals # {}
  /\ \A k \in Terminals :
       /\ k = Len(wsig)
       /\ wsig[k].sig = "finished_ok" <=> pc = "Done"
       /\ wsig[k].sig = "failed" <=> pc = "Failed"
       /\ wsig[k].nprog = Len(progress) /\ wsig[k].nlog = Len(logs)
  /\ (wpc = "running" /\ pc \in {"Done", "Failed"}) =>
       ENABLED (WorkerFinishedOk \/ WorkerFailed)
  /\ (progress # <<>> \/ logs # <<>>) =>
       /\ wsig # <<>>
       /\ wsig[1].sig = "logged" /\ wsig[1].arg = "Iniciando procesamiento"
       /\ wsig[1].nprog = 0 /\ wsig[1].nlog = 0

C18_Witness ==
  /\ wpc = "finished" /\ pc = "Failed" /\ err = "InvalidWeights"
  /\ Len(wsig) = 2 /\ wsig[2].sig = "failed"
  /\ wsig[2].nprog = 4

\* C19 (as claimed): between two starts of a Worker by on_run the values set
\* on the progress bar never decrease, and at most one Worker is running.
C19_BarMonotoneOneWorker ==
  [][/\ Len(workers') = Len(workers) => bar' >= bar
     /\ Cardinality({i \in 1..Len(workers') : workers'[i].st = "running"}) <= 1]_vars

\* the texts of WeightTexts that are blank, and those that are numbers
\* separated by commas
BlankTexts == {<<>>, <<" ">>}

NumberTexts == {<<"1">>, <<"1", ",", "1">>, <<"1", ",", " ", "1">>}

RunPreconditions ==
  /\ (IF ui.tab = "basic" THEN ui.basic_list ELSE ui.mold_list) # <<>>
  /\ ui.dest_list # <<>>
  /\ ui.auto_name \/ ui.out_path \notin BlankTexts
  /\ ui.weights \in BlankTexts \cup NumberTexts

\* C20: on_run starts a Worker only when the active mold list is not empty, a
\* destination is chosen, an output path is determined and the weights text,
\* when not blank, is a list of numbers; the Worker it starts has at least
\* one mold; a run refused leaves the progress bar, the log view and the
\* Workers as they were.
C20_RunPreconditions ==
  [][/\ Len(workers') > Len(workers) =>
          /\ RunPreconditions
          /\ workers'[Len(workers')].M >= 1
          /\ workers'[Len(workers')].M =
               Len(IF ui.tab = "basic" THEN ui.basic_list ELSE ui.mold_list)
     /\ ~RunPreconditions =>
          /\ bar' = bar /\ log_empty' = log_empty /\ workers' = workers
          /\ dialog' \in {"Faltan moldes", "Falta destino", "Falta salida",
                          "Weights invalidos"}]_vars

C20_Witness ==
  /\ ui.tab = "basic" /\ ui.basic_list = <<>> /\ ui.mold_list # <<>>
  /\ ui.dest_list # <<>> /\ ui.weights = <<"1", ",", "1">>
  /\ dialog = "Faltan moldes"
  /\ bar = 100 /\ ~log_empty /\ workers = <<>>

====
